---- MODULE Spec2Model ----
(***************************************************************************)
(* Model of src/app.py: a Flask service that converts an uploaded Word     *)
(* document to PDF through a fallback chain of converters, serves the      *)
(* result for download and sweeps old files.                               *)
(*                                                                         *)
(* File names are sequences of one-character strings, so that the string   *)
(* operations of the source (lower, endswith, splitext, split, int, str)   *)
(* are computed and not assumed.  A directory is a function from the names *)
(* of the files it holds to their size class (0 = empty, 1 = non-empty).   *)
(* The wall clock `now` counts half seconds, so that time.time() can fall  *)
(* between two integer timestamps.                                         *)
(***************************************************************************)
EXTENDS Integers, Sequences, FiniteSets, TLC

VARIABLES now, uploads, outputs, req, lastDownload, lastCleanup

vars == <<now, uploads, outputs, req, lastDownload, lastCleanup>>

----------------------------------------------------------------------------
(* Bounds of the model *)

\* number of small clock ticks (half seconds) a behaviour may take
MaxTicks == 1

\* number of 24-hour jumps of the clock a behaviour may take
MaxJumps == 1

\* the requests a behaviour handles, possibly concurrently
Requests == {1, 2}

\* 24 * 60 * 60, the age threshold of cleanup, in seconds
DaySeconds == 86400

\* the clock value of the initial state, in half seconds (86400.5 s)
StartNow == 2 * DaySeconds + 1

----------------------------------------------------------------------------
(* Strings *)

Digits == <<"0", "1", "2", "3", "4", "5", "6", "7", "8", "9">>

IsDigit(c) == \E i \in 1..10 : Digits[i] = c

DigitVal(c) == (CHOOSE i \in 1..10 : Digits[i] = c) - 1

\* str(n) of a non-negative int
RECURSIVE IntToStr(_)
IntToStr(n) ==
    IF n < 10 THEN <<Digits[n + 1]>>
    ELSE Append(IntToStr(n \div 10), Digits[(n % 10) + 1])

RECURSIVE DigitsValue(_)
DigitsValue(s) ==
    IF s = <<>> THEN 0
    ELSE DigitsValue(SubSeq(s, 1, Len(s) - 1)) * 10 + DigitVal(s[Len(s)])

\* int(s): an optional sign followed by at least one digit, else ValueError
PyInt(s) ==
    LET signed == Len(s) > 0 /\ s[1] \in {"-", "+"}
        body   == IF signed THEN SubSeq(s, 2, Len(s)) ELSE s
    IN  IF body # <<>> /\ \A i \in 1..Len(body) : IsDigit(body[i])
        THEN [ok |-> TRUE,
              val |-> IF signed /\ s[1] = "-" THEN 0 - DigitsValue(body)
                      ELSE DigitsValue(body)]
        ELSE [ok |-> FALSE, val |-> 0]

\* str.lower() on the letters the model uses
LowerChar(c) ==
    CASE c = "A" -> "a"
      [] c = "C" -> "c"
      [] c = "D" -> "d"
      [] c = "O" -> "o"
      [] c = "X" -> "x"
      [] OTHER -> c

PyLower(s) == [i \in 1..Len(s) |-> LowerChar(s[i])]

PyEndsWith(s, suf) ==
    /\ Len(s) >= Len(suf)
    /\ SubSeq(s, Len(s) - Len(suf) + 1, Len(s)) = suf

\* index of the first occurrence of character c in s, 0 when there is none
FirstIndex(s, c) ==
    IF \E i \in 1..Len(s) : s[i] = c
    THEN CHOOSE i \in 1..Len(s) : s[i] = c /\ \A j \in 1..(i - 1) : s[j] # c
    ELSE 0

\* index of the last occurrence of character c in s, 0 when there is none
LastIndex(s, c) ==
    IF \E i \in 1..Len(s) : s[i] = c
    THEN CHOOSE i \in 1..Len(s) : s[i] = c /\ \A j \in (i + 1)..Len(s) : s[j] # c
    ELSE 0

\* s.split(sep, maxsplit); maxsplit = -1 for no limit
RECURSIVE PySplit(_, _, _)
PySplit(s, sep, maxsplit) ==
    LET i == FirstIndex(s, sep)
    IN  IF i = 0 \/ maxsplit = 0 THEN <<s>>
        ELSE <<SubSeq(s, 1, i - 1)>>
                 \o PySplit(SubSeq(s, i + 1, Len(s)), sep, maxsplit - 1)

\* os.path.splitext on a name without directory separators: the extension
\* starts at the last dot, unless only dots precede that dot
PySplitext(p) ==
    LET dot == LastIndex(p, ".")
    IN  IF dot > 0 /\ \E k \in 1..(dot - 1) : p[k] # "."
        THEN <<SubSeq(p, 1, dot - 1), SubSeq(p, dot, Len(p))>>
        ELSE <<p, <<>> >>

DotDocx == <<".", "d", "o", "c", "x">>
DotDoc  == <<".", "d", "o", "c">>
DotPdf  == <<".", "p", "d", "f">>
Underscore == <<"_">>

----------------------------------------------------------------------------
(* Directories *)

EmptyDir == [n \in {} |-> 0]

Exists(dir, n) == n \in DOMAIN dir

\* os.path.getsize(...) > 0
NonEmpty(dir, n) == dir[n] > 0

WriteFile(dir, n, size) ==
    [m \in (DOMAIN dir) \cup {n} |-> IF m = n THEN size ELSE dir[m]]

RemoveFile(dir, n) == [m \in (DOMAIN dir) \ {n} |-> dir[m]]

\* os.rename(src, dst) inside one directory: dst is replaced
RenameFile(dir, src, dst) ==
    [m \in ((DOMAIN dir) \ {src}) \cup {dst} |-> IF m = dst THEN dir[src] ELSE dir[m]]

----------------------------------------------------------------------------
(* The converters.  The external tool is the environment: `eff` is what one *)
(* run of it did, its exit (ok / err, err covering a missing executable, a  *)
(* non-zero return code, a timeout and an in-process exception) and what it *)
(* wrote to its target file (none / empty / data).  Each converter returns  *)
(* its result ("true", "false" or "raise") and the outputs directory after  *)
(* the run.                                                                 *)

Effects ==
    { [exit |-> "err", write |-> "none"],
      [exit |-> "err", write |-> "data"],
      [exit |-> "ok",  write |-> "none"],
      [exit |-> "ok",  write |-> "empty"],
      [exit |-> "ok",  write |-> "data"] }

\* the runs that differ in the converter's result: raise, false, true
ResultEffects ==
    { [exit |-> "err", write |-> "none"],
      [exit |-> "ok",  write |-> "empty"],
      [exit |-> "ok",  write |-> "data"] }

\* a tool that cannot read its input fails without writing
EffectsFor(effs, inputExists) ==
    IF inputExists THEN effs ELSE {[exit |-> "err", write |-> "none"]}

ToolWrite(outs, target, eff) ==
    CASE eff.write = "none"  -> outs
      [] eff.write = "empty" -> WriteFile(outs, target, 0)
      [] eff.write = "data"  -> WriteFile(outs, target, 1)

\* return os.path.exists(output_path) and os.path.getsize(output_path) > 0
ExistsNonEmpty(outs, output_name) ==
    IF Exists(outs, output_name) /\ NonEmpty(outs, output_name)
    THEN "true" ELSE "false"

convert_with_pandoc(input_name, output_name, outs, eff) ==
    LET after == ToolWrite(outs, output_name, eff)
    IN  IF eff.exit = "err"
        THEN [res |-> "raise", outs |-> after]
        ELSE [res |-> ExistsNonEmpty(after, output_name), outs |-> after]

\* the file LibreOffice writes: the input's base name with a .pdf extension
TempOutput(input_name) == PySplitext(input_name)[1] \o DotPdf

\* variant: the file LibreOffice wrote is not renamed to output_path
LibreOfficeResultNoRename(outs, temp_output, output_name) ==
    IF Exists(outs, temp_output)
    THEN [res |-> IF NonEmpty(outs, temp_output) THEN "true" ELSE "false",
          outs |-> outs]
    ELSE IF Exists(outs, output_name)
    THEN [res |-> IF NonEmpty(outs, output_name) THEN "true" ELSE "false",
          outs |-> outs]
    ELSE [res |-> "raise", outs |-> outs]

LibreOfficeResult(outs, temp_output, output_name) ==
    IF Exists(outs, temp_output) /\ temp_output # output_name
    THEN LET moved == RenameFile(outs, temp_output, output_name)
         IN  [res |-> IF NonEmpty(moved, output_name) THEN "true" ELSE "false",
              outs |-> moved]
    ELSE IF Exists(outs, output_name)
    THEN [res |-> IF NonEmpty(outs, output_name) THEN "true" ELSE "false",
          outs |-> outs]
    ELSE [res |-> "raise", outs |-> outs]

convert_with_libreoffice(input_name, output_name, outs, eff) ==
    LET temp_output == TempOutput(input_name)
        after       == ToolWrite(outs, temp_output, eff)
    IN  IF eff.exit = "err"
        THEN [res |-> "raise", outs |-> after]
        ELSE LibreOfficeResult(after, temp_output, output_name)

convert_with_unoconv(input_name, output_name, outs, eff) ==
    LET after == ToolWrite(outs, output_name, eff)
    IN  IF eff.exit = "err"
        THEN [res |-> "raise", outs |-> after]
        ELSE [res |-> ExistsNonEmpty(after, output_name), outs |-> after]

convert_with_python_docx(input_name, output_name, outs, eff) ==
    LET after == ToolWrite(outs, output_name, eff)
    IN  IF eff.exit = "err"
        THEN [res |-> "raise", outs |-> after]
        ELSE [res |-> ExistsNonEmpty(after, output_name), outs |-> after]

conversion_methods == <<"pandoc", "libreoffice", "unoconv", "python-docx-pypdf">>

\* method_func(input_path, output_path) for the method of that name
RunMethod(method_name, input_name, output_name, outs, eff) ==
    CASE method_name = "pandoc" ->
             convert_with_pandoc(input_name, output_name, outs, eff)
      [] method_name = "libreoffice" ->
             convert_with_libreoffice(input_name, output_name, outs, eff)
      [] method_name = "unoconv" ->
             convert_with_unoconv(input_name, output_name, outs, eff)
      [] method_name = "python-docx-pypdf" ->
             convert_with_python_docx(input_name, output_name, outs, eff)

\* the files of the outputs directory a run of the method accesses
MethodTargets(method_name, input_name, output_name) ==
    IF method_name = "libreoffice"
    THEN {TempOutput(input_name), output_name}
    ELSE {output_name}

----------------------------------------------------------------------------
(* Inputs *)

\* file names a client may upload
UploadNames ==
    { <<"a", "_", "b", ".", "D", "O", "C">>,
      <<".", "d", "o", "c", "x">>,
      <<"a", ".", "p", "d", "f">>,
      <<>> }

\* str(uuid.uuid4()): hexadecimal digits and hyphens, never an underscore
UUIDs == << <<"a", "-", "a">>, <<"b", "-", "b">> >>

\* files of earlier runs and files put into the directories by hand
OldDocx    == <<"0", "_", "c", "-", "c", "_", "o", ".", "d", "o", "c", "x">>
OldPdf     == <<"0", "_", "c", "-", "c", "_", "o", ".", "p", "d", "f">>
EdgePdf    == <<"1", "_", "c", "-", "c", "_", "e", ".", "p", "d", "f">>
RecentPdf  == IntToStr(DaySeconds) \o <<"_", "c", "-", "c", "_", "r", ".", "p", "d", "f">>
DigitsOnly == <<"7">>
NotesPdf   == <<"n", ".", "p", "d", "f">>
WordsPdf   == <<"x", "_", "y", "_", "z", ".", "p", "d", "f">>
MissingPdf == <<"9", "_", "c", "-", "c", "_", "m", ".", "p", "d", "f">>

InitUploads == [n \in {OldDocx, DigitsOnly} |-> 1]

InitOutputs == [n \in {OldPdf, EdgePdf, RecentPdf, NotesPdf, WordsPdf} |-> 1]

----------------------------------------------------------------------------
(* State *)

IdleRequest ==
    [pc                 |-> "idle",
     hasFile            |-> FALSE,
     filename           |-> <<>>,
     timestamp          |-> 0,
     unique_id          |-> <<>>,
     idx                |-> 1,
     conversion_success |-> FALSE,
     error_messages     |-> <<>>,
     invoked            |-> <<>>,
     results            |-> <<>>,
     aloneOuts          |-> EmptyDir,
     aloneResults       |-> <<>>,
     touched            |-> {},
     status             |-> 0,
     error              |-> "",
     resp_filename      |-> <<>>,
     download_url       |-> <<>>]

Init ==
    /\ now = StartNow
    /\ uploads = InitUploads
    /\ outputs = InitOutputs
    /\ req = [r \in Requests |-> IdleRequest]
    /\ lastDownload = [filename |-> <<>>, status |-> 0, download_name |-> <<>>]
    /\ lastCleanup = [runs |-> 0, deleted_count |-> 0]

\* time.time(), in half seconds, and int(time.time())
TimeSeconds == now \div 2

Ticks == (now - StartNow) % (2 * DaySeconds)
Jumps == (now - StartNow) \div (2 * DaySeconds)

InFlight(r) == req[r].pc \in {"convert", "remove", "except"}

----------------------------------------------------------------------------
(* convert_file *)

\* variant: the extension is compared without lower()
AllowedExtensionCaseSensitive(filename) ==
    \/ PyEndsWith(filename, DotDocx)
    \/ PyEndsWith(filename, DotDoc)

\* file.filename.lower().endswith(('.docx', '.doc'))
AllowedExtension(filename) ==
    \/ PyEndsWith(PyLower(filename), DotDocx)
    \/ PyEndsWith(PyLower(filename), DotDoc)

\* the error of the validation, "" when the upload is accepted
ValidationError(hasFile, filename) ==
    IF ~hasFile THEN "No file part"
    ELSE IF filename = <<>> THEN "No selected file"
    ELSE IF ~AllowedExtension(filename) THEN "Invalid file format"
    ELSE ""

\* variant: the file id is the timestamp alone
FileIdWithoutToken(timestamp, unique_id) == IntToStr(timestamp)

\* file_id = f"{timestamp}_{unique_id}"
FileId(timestamp, unique_id) == IntToStr(timestamp) \o Underscore \o unique_id

\* input_filename = f"{file_id}_{file.filename}"
InputFilename(file_id, filename) == file_id \o Underscore \o filename

\* output_filename = f"{file_id}_{os.path.splitext(file.filename)[0]}.pdf"
OutputFilename(file_id, filename) ==
    file_id \o Underscore \o PySplitext(filename)[1] \o DotPdf

InputName(r) ==
    InputFilename(FileId(req[r].timestamp, req[r].unique_id), req[r].filename)

OutputName(r) ==
    OutputFilename(FileId(req[r].timestamp, req[r].unique_id), req[r].filename)

DownloadRoute == <<"/download/">>

\* a request that fails validation: 400, nothing else happens
ConvertReject(r) ==
    /\ req[r].pc = "idle"
    /\ \E hasFile \in BOOLEAN :
       \E filename \in (IF hasFile THEN UploadNames ELSE {<<>>}) :
          /\ ValidationError(hasFile, filename) # ""
          /\ req' = [req EXCEPT ![r] =
                 [@ EXCEPT !.pc = "done", !.hasFile = hasFile, !.filename = filename,
                           !.status = 400,
                           !.error = ValidationError(hasFile, filename)]]
    /\ UNCHANGED <<now, uploads, outputs, lastDownload, lastCleanup>>

\* the identifiers drawn so far
UsedUUIDs == {req[s].unique_id : s \in Requests} \ {<<>>}

\* uuid4 returns an identifier never drawn before; identifiers are
\* interchangeable, so the first unused one of UUIDs stands for any of them
FreshUUIDs ==
    LET unused == {i \in 1..Len(UUIDs) : UUIDs[i] \notin UsedUUIDs}
    IN  {UUIDs[i] : i \in {j \in unused : \A k \in unused : j <= k}}

\* an accepted upload: the id is drawn and the file is saved under uploads
ConvertAccept(r, ids) ==
    /\ req[r].pc = "idle"
    /\ \E filename \in UploadNames, unique_id \in ids :
          /\ ValidationError(TRUE, filename) = ""
          /\ LET timestamp      == TimeSeconds
                 input_filename == InputFilename(FileId(timestamp, unique_id), filename)
             IN  /\ uploads' = WriteFile(uploads, input_filename, 1)
                 /\ req' = [req EXCEPT ![r] =
                        [@ EXCEPT !.pc = "convert", !.hasFile = TRUE,
                                  !.filename = filename,
                                  !.timestamp = timestamp,
                                  !.unique_id = unique_id,
                                  !.touched = {<<"uploads", input_filename>>}]]
    /\ UNCHANGED <<now, outputs, lastDownload, lastCleanup>>

\* variant: the loop breaks on any result that was returned, true or false
AfterAttemptBreaksOnReturn(q, method_name, res, aloneRun, targets) ==
    LET returned == (res # "raise")
        last     == (q.idx = Len(conversion_methods))
    IN  [q EXCEPT !.invoked = Append(@, method_name),
                  !.results = Append(@, res),
                  !.aloneResults = Append(@, aloneRun.res),
                  !.aloneOuts = aloneRun.outs,
                  !.touched = @ \cup {<<"outputs", t>> : t \in targets},
                  !.conversion_success = IF returned THEN TRUE ELSE @,
                  !.error_messages = IF returned THEN @ ELSE Append(@, method_name),
                  !.idx = IF returned THEN @ ELSE @ + 1,
                  !.pc = IF returned THEN "remove"
                         ELSE IF last THEN "except" ELSE "convert",
                  !.error = IF ~returned /\ last
                            THEN "All conversion methods failed" ELSE @]

\* variant: the loop has no break, a later method runs after a success
AfterAttemptNoBreak(q, method_name, res, aloneRun, targets) ==
    LET last == (q.idx = Len(conversion_methods))
    IN  [q EXCEPT !.invoked = Append(@, method_name),
                  !.results = Append(@, res),
                  !.aloneResults = Append(@, aloneRun.res),
                  !.aloneOuts = aloneRun.outs,
                  !.touched = @ \cup {<<"outputs", t>> : t \in targets},
                  !.conversion_success = IF res = "raise" THEN @ ELSE (res = "true"),
                  !.error_messages =
                      IF res = "raise" THEN Append(@, method_name) ELSE @,
                  !.idx = @ + 1,
                  !.pc = IF ~last THEN "convert"
                         ELSE IF res = "true" \/ (res = "raise" /\ q.conversion_success)
                         THEN "remove" ELSE "except",
                  !.error = IF last /\ ~(res = "true")
                               /\ ~(res = "raise" /\ q.conversion_success)
                            THEN "All conversion methods failed" ELSE @]

\* the request record after the attempt with conversion_methods[idx]: a true
\* result breaks the loop, a raise appends an error message, and after the
\* last method without success the handler raises "All conversion methods failed"
AfterAttempt(q, method_name, res, aloneRun, targets) ==
    LET succeeded == (res = "true")
        last      == (q.idx = Len(conversion_methods))
    IN  [q EXCEPT !.invoked = Append(@, method_name),
                  !.results = Append(@, res),
                  !.aloneResults = Append(@, aloneRun.res),
                  !.aloneOuts = aloneRun.outs,
                  !.touched = @ \cup {<<"outputs", t>> : t \in targets},
                  !.conversion_success = IF res = "raise" THEN @ ELSE succeeded,
                  !.error_messages =
                      IF res = "raise" THEN Append(@, method_name) ELSE @,
                  !.idx = IF succeeded THEN @ ELSE @ + 1,
                  !.pc = IF succeeded THEN "remove"
                         ELSE IF last THEN "except" ELSE "convert",
                  !.error = IF ~succeeded /\ last
                            THEN "All conversion methods failed" ELSE @]

\* one iteration of the loop over conversion_methods
ConvertAttempt(r, effs) ==
    /\ req[r].pc = "convert"
    /\ req[r].idx <= Len(conversion_methods)
    /\ \E eff \in EffectsFor(effs, Exists(uploads, InputName(r))) :
          LET method_name == conversion_methods[req[r].idx]
              run      == RunMethod(method_name, InputName(r), OutputName(r), outputs, eff)
              aloneRun == RunMethod(method_name, InputName(r), OutputName(r),
                                    req[r].aloneOuts, eff)
              targets  == MethodTargets(method_name, InputName(r), OutputName(r))
          IN  /\ outputs' = run.outs
              /\ req' = [req EXCEPT ![r] =
                     AfterAttempt(@, method_name, run.res, aloneRun, targets)]
    /\ UNCHANGED <<now, uploads, lastDownload, lastCleanup>>

\* os.remove(input_path) after a success, then the 200 response; a missing
\* input makes os.remove raise, which the outer except handles
ConvertRemoveInput(r) ==
    /\ req[r].pc = "remove"
    /\ IF Exists(uploads, InputName(r))
       THEN /\ uploads' = RemoveFile(uploads, InputName(r))
            /\ req' = [req EXCEPT ![r] =
                   [@ EXCEPT !.pc = "done", !.status = 200,
                             !.resp_filename = PySplitext(req[r].filename)[1] \o DotPdf,
                             !.download_url = DownloadRoute \o OutputName(r)]]
       ELSE /\ uploads' = uploads
            /\ req' = [req EXCEPT ![r] =
                   [@ EXCEPT !.pc = "except", !.error = "No such file or directory"]]
    /\ UNCHANGED <<now, outputs, lastDownload, lastCleanup>>

\* variant: the except block leaves the input in place
ExceptKeepsInput(ups, input_filename) == ups

\* the uploads directory after the except block: the input is removed if it exists
ExceptCleanup(ups, input_filename) ==
    IF Exists(ups, input_filename) THEN RemoveFile(ups, input_filename) ELSE ups

\* the outer except: remove the input if it is still there, respond 500
ConvertExcept(r) ==
    /\ req[r].pc = "except"
    /\ uploads' = ExceptCleanup(uploads, InputName(r))
    /\ req' = [req EXCEPT ![r] = [@ EXCEPT !.pc = "done", !.status = 500]]
    /\ UNCHANGED <<now, outputs, lastDownload, lastCleanup>>

----------------------------------------------------------------------------
(* download_file *)

\* the response of download_file(filename) on the outputs directory `outs`:
\* 404 when the file is absent; else filename.split('_', 2)[2] is the download
\* name, and a name with fewer than three fields raises IndexError (500)
DownloadResponse(outs, filename) ==
    IF ~Exists(outs, filename)
    THEN [filename |-> filename, status |-> 404, download_name |-> <<>>]
    ELSE LET parts == PySplit(filename, "_", 2)
         IN  IF Len(parts) < 3
             THEN [filename |-> filename, status |-> 500, download_name |-> <<>>]
             ELSE [filename |-> filename, status |-> 200, download_name |-> parts[3]]

\* the names a client may ask for
DownloadNames == (DOMAIN outputs) \cup {MissingPdf}

download_file(filename) ==
    /\ lastDownload' = DownloadResponse(outputs, filename)
    /\ lastDownload' # lastDownload
    /\ UNCHANGED <<now, uploads, outputs, req, lastCleanup>>

----------------------------------------------------------------------------
(* cleanup *)

\* cleanup runs a behaviour may take
MaxCleanups == 1

\* variant: a file exactly 24 hours old is swept too
ExpiredInclusive(filename, time_half_seconds) ==
    LET timestamp == PyInt(PySplit(filename, "_", -1)[1])
    IN  /\ timestamp.ok
        /\ 2 * timestamp.val <= time_half_seconds - 2 * DaySeconds

\* timestamp = int(filename.split('_')[0]); timestamp < threshold_time, where
\* threshold_time = time.time() - 24 * 60 * 60; a ValueError skips the file
Expired(filename, time_half_seconds) ==
    LET timestamp == PyInt(PySplit(filename, "_", -1)[1])
    IN  /\ timestamp.ok
        /\ 2 * timestamp.val < time_half_seconds - 2 * DaySeconds

Sweep(dir, time_half_seconds) ==
    [n \in {m \in DOMAIN dir : ~Expired(m, time_half_seconds)} |-> dir[n]]

cleanup ==
    /\ lastCleanup.runs < MaxCleanups
    /\ uploads' = Sweep(uploads, now)
    /\ outputs' = Sweep(outputs, now)
    /\ lastCleanup' =
           [runs |-> lastCleanup.runs + 1,
            deleted_count |->
                Cardinality((DOMAIN uploads) \ DOMAIN Sweep(uploads, now))
              + Cardinality((DOMAIN outputs) \ DOMAIN Sweep(outputs, now))]
    /\ UNCHANGED <<now, req, lastDownload>>

----------------------------------------------------------------------------
(* The clock *)

\* half a second passes
Tick ==
    /\ Ticks < MaxTicks
    /\ now' = now + 1
    /\ UNCHANGED <<uploads, outputs, req, lastDownload, lastCleanup>>

\* a day passes; every tool run is bounded by timeout=120, so no request is
\* in flight for a day
Jump ==
    /\ Jumps < MaxJumps
    /\ \A r \in Requests : ~InFlight(r)
    /\ now' = now + 2 * DaySeconds
    /\ UNCHANGED <<uploads, outputs, req, lastDownload, lastCleanup>>

----------------------------------------------------------------------------
(* Specifications *)

\* requests are numbered in the order in which they arrive
Arrived(r) == \A s \in Requests : s < r => req[s].pc # "idle"

\* concurrent requests; uuid4 returns a fresh identifier on every call
Next ==
    \/ \E r \in Requests : Arrived(r) /\ ConvertReject(r)
    \/ \E r \in Requests : Arrived(r) /\ ConvertAccept(r, FreshUUIDs)
    \/ \E r \in Requests : ConvertAttempt(r, ResultEffects)
    \/ \E r \in Requests : ConvertRemoveInput(r)
    \/ \E r \in Requests : ConvertExcept(r)
    \/ Tick

Spec == Init /\ [][Next]_vars

\* concurrent requests; uuid4 may repeat an identifier
NextCollide ==
    \/ \E r \in Requests : Arrived(r) /\ ConvertReject(r)
    \/ \E r \in Requests : Arrived(r) /\ ConvertAccept(r, FreshUUIDs \cup UsedUUIDs)
    \/ \E r \in Requests : ConvertAttempt(r, ResultEffects)
    \/ \E r \in Requests : ConvertRemoveInput(r)
    \/ \E r \in Requests : ConvertExcept(r)
    \/ Tick

SpecCollide == Init /\ [][NextCollide]_vars

\* one request, every tool effect, downloads, cleanup runs and days passing
NextFiles ==
    \/ \E r \in {1} : Arrived(r) /\ ConvertReject(r)
    \/ \E r \in {1} : Arrived(r) /\ ConvertAccept(r, FreshUUIDs)
    \/ \E r \in {1} : ConvertAttempt(r, Effects)
    \/ \E r \in {1} : ConvertRemoveInput(r)
    \/ \E r \in {1} : ConvertExcept(r)
    \/ \E filename \in DownloadNames : download_file(filename)
    \/ cleanup
    \/ Tick
    \/ Jump

SpecFiles == Init /\ [][NextFiles]_vars

----------------------------------------------------------------------------
(* Properties *)

Accepted(r) == req[r].pc # "idle" /\ req[r].status # 400

Responded(r) == req[r].pc = "done" /\ req[r].status \in {200, 500}

\* the order of preference of the converters
FallbackOrder == <<"pandoc", "libreoffice", "unoconv", "python-docx-pypdf">>

\* C1: the converters are tried in the order pandoc, libreoffice, unoconv,
\* python-docx; a converter is tried only after every earlier one raised or
\* returned false, none is tried after a success, none is tried twice.
C1_FallbackOrder ==
    \A r \in Requests :
        LET n == Len(req[r].invoked)
        IN  /\ n <= Len(FallbackOrder)
            /\ Len(req[r].results) = n
            /\ \A i \in 1..n : req[r].invoked[i] = FallbackOrder[i]
            /\ \A i \in 1..(n - 1) : req[r].results[i] \in {"raise", "false"}
            /\ \A i, j \in 1..n : i # j => req[r].invoked[i] # req[r].invoked[j]

\* a request whose third converter succeeded after a raise and a false result
C1_Witness ==
    \E r \in Requests :
        /\ req[r].pc = "done"
        /\ req[r].results = <<"raise", "false", "true">>
        /\ req[r].invoked = <<"pandoc", "libreoffice", "unoconv">>

\* C2: when every converter failed, the 500 error lists one failure reason
\* for every attempt made, attempts that returned false included.
C2_EveryAttemptListed ==
    \A r \in Requests :
        (req[r].pc = "done" /\ req[r].status = 500
            /\ req[r].error = "All conversion methods failed")
        => Len(req[r].error_messages) = Len(req[r].invoked)

\* request r, not yet answered, can take its next step: in the loop a method
\* is left to try, after the loop the removal or the except block can run
CanStep(r) ==
    CASE req[r].pc = "convert" ->
             /\ req[r].idx = Len(req[r].invoked) + 1
             /\ req[r].idx <= Len(conversion_methods)
      [] req[r].pc = "remove" -> ENABLED ConvertRemoveInput(r)
      [] req[r].pc = "except" -> ENABLED ConvertExcept(r)
      [] OTHER -> TRUE

\* an upper bound of the steps request r still takes before it has answered
StepsLeft(q) ==
    CASE q.pc = "idle"    -> 7
      [] q.pc = "convert" -> (4 - Len(q.invoked)) + 2
      [] q.pc = "remove"  -> 2
      [] q.pc = "except"  -> 1
      [] q.pc = "done"    -> 0

\* C3: an accepted request answers 200 exactly when a converter reported
\* success and 500 otherwise, after at most four attempts; until it has
\* answered it can always take a step, and every step brings the answer nearer.
C3_SuccessIffConverterSucceeded ==
    /\ [](\A r \in Requests :
            /\ Len(req[r].invoked) <= 4
            /\ (Accepted(r) /\ req[r].pc = "done") =>
                   /\ req[r].status \in {200, 500}
                   /\ req[r].status = 200
                        <=> \E i \in 1..Len(req[r].results) : req[r].results[i] = "true"
            /\ InFlight(r) => (req[r].status = 0 /\ CanStep(r)))
    /\ [][\A r \in Requests :
            req'[r] # req[r] =>
                /\ StepsLeft(req'[r]) >= 0
                /\ StepsLeft(req'[r]) < StepsLeft(req[r])]_vars

\* one request answered 200 and another 500 after four failed attempts
C3_Witness ==
    \E r, s \in Requests :
        /\ req[r].pc = "done" /\ req[r].status = 200
        /\ req[s].pc = "done" /\ req[s].status = 500 /\ Len(req[s].invoked) = 4

\* C4: once an accepted request has been answered, with 200 or with 500, the
\* file it saved under uploads no longer exists.
C4_InputDeleted ==
    \A r \in Requests : Responded(r) => ~Exists(uploads, InputName(r))

\* both kinds of answer have been given
C4_Witness ==
    \E r, s \in Requests :
        /\ Responded(r) /\ req[r].status = 200
        /\ Responded(s) /\ req[s].status = 500
        /\ ~Exists(uploads, InputName(r))
        /\ ~Exists(uploads, InputName(s))

\* a file name whose prefix is that of request r
HasPrefixOf(r, n) ==
    LET prefix == FileId(req[r].timestamp, req[r].unique_id) \o Underscore
    IN  Len(n) >= Len(prefix) /\ SubSeq(n, 1, Len(prefix)) = prefix

\* C8: after a request answered 500, the outputs directory holds no file
\* with the request's prefix.
C8_NoOutputAfterFailure ==
    \A r \in Requests :
        (Responded(r) /\ req[r].status = 500)
        => ~\E n \in DOMAIN outputs : HasPrefixOf(r, n)

\* a rejected upload, in the words of the validation rules: no file part, an
\* empty name, or a name not ending in .doc or .docx whatever the case
LastChars(s, k) == IF Len(s) >= k THEN PyLower(SubSeq(s, Len(s) - k + 1, Len(s))) ELSE <<>>

InvalidUpload(hasFile, filename) ==
    \/ ~hasFile
    \/ filename = <<>>
    \/ (LastChars(filename, 4) # DotDoc /\ LastChars(filename, 5) # DotDocx)

\* C9: a request rejected by validation is answered 400, runs no converter
\* and leaves uploads and outputs as they were; no other request is rejected.
C9_RejectionHasNoEffect ==
    [][\A r \in Requests :
          (req[r].pc = "idle" /\ req'[r].pc # "idle") =>
              IF InvalidUpload(req'[r].hasFile, req'[r].filename)
              THEN /\ req'[r].pc = "done"
                   /\ req'[r].status = 400
                   /\ req'[r].invoked = <<>>
                   /\ uploads' = uploads
                   /\ outputs' = outputs
              ELSE req'[r].status # 400]_vars

\* an upload rejected for its extension, next to an accepted upload whose
\* extension is in upper case
C9_Witness ==
    \E r, s \in Requests :
        /\ req[r].status = 400
        /\ req[r].error = "Invalid file format"
        /\ Accepted(s)
        /\ req[s].filename = <<"a", "_", "b", ".", "D", "O", "C">>

\* the text of a file name before its first underscore, the whole name when
\* it has none
TimestampField(n) ==
    LET k == FirstIndex(n, "_")
    IN  IF k = 0 THEN n ELSE SubSeq(n, 1, k - 1)

Unsigned(t) == IF Len(t) > 0 /\ t[1] \in {"+", "-"} THEN Tail(t) ELSE t

IsIntegerText(t) ==
    /\ Unsigned(t) # <<>>
    /\ \A i \in 1..Len(Unsigned(t)) : IsDigit(Unsigned(t)[i])

IntegerValue(t) ==
    IF Len(t) > 0 /\ t[1] = "-" THEN 0 - DigitsValue(Unsigned(t))
    ELSE DigitsValue(Unsigned(t))

\* the name starts with an integer timestamp more than 24 hours before the
\* time t, given in half seconds
OlderThanADay(n, t) ==
    /\ IsIntegerText(TimestampField(n))
    /\ t - 2 * IntegerValue(TimestampField(n)) > 2 * DaySeconds

KeptBySweep(dir, t) == [n \in {m \in DOMAIN dir : ~OlderThanADay(m, t)} |-> dir[n]]

SamePrefix(r, s) ==
    /\ req[r].timestamp = req[s].timestamp
    /\ req[r].unique_id = req[s].unique_id

\* the answer request r gives when it runs alone
AloneStatus(r) ==
    IF \E i \in 1..Len(req[r].aloneResults) : req[r].aloneResults[i] = "true"
    THEN 200 ELSE 500

\* C6: two accepted requests whose {timestamp}_{random_id} prefixes differ
\* use different input and output paths, touch no file in common, and each
\* sees the converter results and gives the answer of a run on its own; so
\* interference needs the timestamp and the token to coincide.
C6_IndependentUnlessPrefixCollides ==
    \A r, s \in Requests :
        (r # s /\ Accepted(r) /\ Accepted(s) /\ ~SamePrefix(r, s)) =>
            /\ InputName(r) # InputName(s)
            /\ OutputName(r) # OutputName(s)
            /\ req[r].touched \cap req[s].touched = {}
            /\ req[r].results = req[r].aloneResults
            /\ Responded(r) => req[r].status = AloneStatus(r)

\* two answered requests for the same file name in the same second, their
\* prefixes differing in the token only, one succeeded and one failed
C6_Witness ==
    \E r, s \in Requests :
        /\ r # s
        /\ Responded(r) /\ Responded(s)
        /\ req[r].filename = req[s].filename
        /\ req[r].timestamp = req[s].timestamp
        /\ req[r].unique_id # req[s].unique_id
        /\ req[r].status = 200
        /\ req[s].status = 500

\* with the same prefix a request is answered otherwise than on its own
C6_Interference ==
    \E r, s \in Requests :
        /\ r # s /\ Accepted(r) /\ Accepted(s) /\ SamePrefix(r, s)
        /\ Responded(r)
        /\ req[r].status # AloneStatus(r)

\* the file name a download URL names
UrlFilename(url) == Tail(url)

\* the output name of request r: the first two fields of the name of its
\* input file, the original base name, and .pdf
ExpectedOutputName(r) ==
    LET fields == PySplit(InputName(r), "_", 2)
    IN  fields[1] \o Underscore \o fields[2] \o Underscore
            \o PySplitext(req[r].filename)[1] \o DotPdf

\* C7: when a request is answered 200 the output file exists with non-zero
\* size under the input's prefix, the base name and .pdf, download_url names
\* it, and until a cleanup run removes it a download of it is not a 404.
C7_SuccessHasOutput ==
    /\ [](\A r \in Requests :
            req[r].status = 200 =>
                LET name == UrlFilename(req[r].download_url)
                IN  /\ Head(req[r].download_url) = "/download/"
                    /\ name = ExpectedOutputName(r)
                    /\ Exists(outputs, name) =>
                           /\ NonEmpty(outputs, name)
                           /\ DownloadResponse(outputs, name).status # 404
                    /\ ~Exists(outputs, name) => lastCleanup.runs > 0)
    /\ [][\A r \in Requests :
            LET name == UrlFilename(req'[r].download_url)
            IN  /\ (req[r].status # 200 /\ req'[r].status = 200) =>
                       (Exists(outputs', name) /\ NonEmpty(outputs', name))
                /\ (req[r].status = 200 /\ Exists(outputs, name)
                        /\ ~Exists(outputs', name)) =>
                       lastCleanup'.runs # lastCleanup.runs]_vars

\* a 200 answer for the upload .docx, whose output LibreOffice wrote under
\* another name, and the output is there to download
C7_Witness ==
    \E r \in Requests :
        /\ req[r].status = 200
        /\ req[r].filename = <<".", "d", "o", "c", "x">>
        /\ req[r].results = <<"raise", "true">>
        /\ Exists(outputs, UrlFilename(req[r].download_url))
        /\ DownloadResponse(outputs, UrlFilename(req[r].download_url)).status = 200

\* the download name of every output of convert_file is the file name of
\* the response, the base name of the upload with .pdf
DownloadNameIsBaseName ==
    \A r \in Requests :
        req[r].status = 200 =>
            LET name == UrlFilename(req[r].download_url)
            IN  /\ Len(PySplit(name, "_", 2)) = 3
                /\ PySplit(name, "_", 2)[3] = req[r].resp_filename
                /\ req[r].resp_filename = PySplitext(req[r].filename)[1] \o DotPdf

\* C10: download_file answers 404 for a file that is absent and serves every
\* file that is present; the download name of an output of convert_file is
\* the base name of the upload with .pdf, underscores in it included.
C10_DownloadServesOrNotFound ==
    /\ lastDownload.status \in {0, 200, 404}
    /\ lastDownload.status = 200 => Exists(outputs, lastDownload.filename)
            \/ lastCleanup.runs > 0
    /\ DownloadNameIsBaseName

====
